---- MODULE Spec2Model ----
(***************************************************************************)
(* Smart Pantry App (src/app.js): the in-memory inventory and signed-in    *)
(* user, their mirrors in localStorage, the per-render scanning closure,   *)
(* and the handlers that mutate them.                                      *)
(***************************************************************************)
EXTENDS Integers, Sequences, FiniteSets, TLC

VARIABLES
    storedInventory,  \* localStorage["inventory"]: [present, text]
    storedUser,       \* localStorage["googleUser"]: [present, text]
    inventory,        \* `let inventory`: a JSON value (normally an array of items)
    user,             \* `let user`: a JSON value (null when signed out)
    crashed,          \* the last top-level render() threw: no DOM, no handlers
    barcodeReader,    \* `let barcodeReader` of the closure of the last render()
    decoding,         \* readers whose decodeOnceFromVideoDevice is still pending
    readersMade,      \* number of BrowserMultiFormatReader objects constructed
    scanHidden,       \* #scan-container of the current DOM carries class "hidden"
    zxingLoaded,      \* the ZXing library (CDN script) is available on this page
    now,              \* the instant `new Date()` returns, in ms
    tz,               \* the browser's local-time offset from UTC, in ms
    lookup,           \* the last price lookup: [prices, name, result]
    last              \* history: the handler that ran last, [op, arg]

vars == <<storedInventory, storedUser, inventory, user, crashed, barcodeReader,
          decoding, readersMade, scanHidden, zxingLoaded, now, tz, lookup, last>>

(* Everything but the history variable. *)
state == <<storedInventory, storedUser, inventory, user, crashed, barcodeReader,
           decoding, readersMade, scanHidden, zxingLoaded, now, tz, lookup>>

Ran(op, arg) == last' = [op |-> op, arg |-> arg]

(***************************************************************************)
(* Bounds of the model.                                                    *)
(***************************************************************************)
MaxItems == 4       \* longest inventory list explored
MaxReaders == 2     \* barcode readers constructed in one page life
MaxDay == 9         \* last calendar day `now` reaches

(***************************************************************************)
(* JavaScript values.  null and undefined are kept apart from every string *)
(* the model uses.                                                         *)
(***************************************************************************)
Null == "<null>"
Undefined == "<undefined>"
None == 0           \* barcodeReader = null; readers are numbered from 1

(***************************************************************************)
(* JSON text, as a sequence of tokens.                                     *)
(***************************************************************************)
Tok(k, s, n) == [k |-> k, s |-> s, n |-> n]
LBRACK == Tok("[", "", 0)
RBRACK == Tok("]", "", 0)
LBRACE == Tok("{", "", 0)
RBRACE == Tok("}", "", 0)
TNull == Tok("null", "", 0)
TTrue == Tok("true", "", 0)
TFalse == Tok("false", "", 0)
TJunk == Tok("junk", "", 0)          \* characters that start no JSON value
TStr(s) == Tok("str", s, 0)
TNum(n) == Tok("num", "", n)

(* An in-memory JSON value: type, and the part that type uses. *)
JNull == [type |-> "null", n |-> 0, elems |-> <<>>, fields |-> <<>>]
JNumber(n) == [type |-> "number", n |-> n, elems |-> <<>>, fields |-> <<>>]
JObject(f) == [type |-> "object", n |-> 0, elems |-> <<>>, fields |-> f]
JArray(s) == [type |-> "array", n |-> 0, elems |-> s, fields |-> <<>>]

(* JavaScript truthiness of a value: `if (!user)`. *)
Truthy(v) == ~(v.type = "null" \/ (v.type = "number" /\ v.n = 0))

IsScalarTok(t) == t.k \in {"str", "num", "true", "false", "null"}

ScalarVal(t) ==
    CASE t.k = "str" -> t.s
      [] t.k = "num" -> t.n
      [] t.k = "true" -> TRUE
      [] t.k = "false" -> FALSE
      [] OTHER -> Null

ParseFail == [ok |-> FALSE, next |-> 0, val |-> <<>>]

(* The members of an object from position i on, up to its closing brace. *)
RECURSIVE ParseMembers(_, _, _)
ParseMembers(t, i, acc) ==
    IF i > Len(t) THEN ParseFail
    ELSE IF t[i] = RBRACE THEN [ok |-> TRUE, next |-> i + 1, val |-> acc]
    ELSE IF t[i].k = "str" /\ i + 1 <= Len(t) /\ IsScalarTok(t[i + 1])
         THEN ParseMembers(t, i + 2, (t[i].s :> ScalarVal(t[i + 1])) @@ acc)
    ELSE ParseFail

(* The elements (objects) of an array from position i on, up to its bracket. *)
RECURSIVE ParseElements(_, _, _)
ParseElements(t, i, acc) ==
    IF i > Len(t) THEN ParseFail
    ELSE IF t[i] = RBRACK THEN [ok |-> TRUE, next |-> i + 1, val |-> acc]
    ELSE IF t[i] = LBRACE
         THEN LET m == ParseMembers(t, i + 1, <<>>)
              IN  IF m.ok THEN ParseElements(t, m.next, Append(acc, m.val))
                  ELSE ParseFail
    ELSE ParseFail

(* JSON.parse: ok = FALSE is a thrown SyntaxError. *)
JSONparse(t) ==
    IF t = <<>> THEN [ok |-> FALSE, val |-> JNull]
    ELSE IF t = <<TNull>> THEN [ok |-> TRUE, val |-> JNull]
    ELSE IF Len(t) = 1 /\ t[1].k = "num" THEN [ok |-> TRUE, val |-> JNumber(t[1].n)]
    ELSE IF t[1] = LBRACE
         THEN LET m == ParseMembers(t, 2, <<>>)
              IN  IF m.ok /\ m.next = Len(t) + 1
                  THEN [ok |-> TRUE, val |-> JObject(m.val)]
                  ELSE [ok |-> FALSE, val |-> JNull]
    ELSE IF t[1] = LBRACK
         THEN LET e == ParseElements(t, 2, <<>>)
              IN  IF e.ok /\ e.next = Len(t) + 1
                  THEN [ok |-> TRUE, val |-> JArray(e.val)]
                  ELSE [ok |-> FALSE, val |-> JNull]
    ELSE [ok |-> FALSE, val |-> JNull]

StrOrNull(v) == IF v = Null THEN TNull ELSE TStr(v)

(* JSON.stringify of one item { id, name, quantity, expirationDate, barcode, regular }. *)
StringifyItem(it) ==
    <<LBRACE,
      TStr("id"), TStr(it.id),
      TStr("name"), TStr(it.name),
      TStr("quantity"), TNum(it.quantity),
      TStr("expirationDate"), StrOrNull(it.expirationDate),
      TStr("barcode"), StrOrNull(it.barcode),
      TStr("regular"), IF it.regular THEN TTrue ELSE TFalse,
      RBRACE>>

RECURSIVE StringifyItems(_)
StringifyItems(s) ==
    IF s = <<>> THEN <<>> ELSE StringifyItem(Head(s)) \o StringifyItems(Tail(s))

(* JSON.stringify(inventory) for an array of items. *)
StringifyInventory(v) == <<LBRACK>> \o StringifyItems(v.elems) \o <<RBRACK>>

(* One member of an object; a member whose value is undefined is left out. *)
Member(k, v) == IF v = Undefined THEN <<>> ELSE <<TStr(k), TStr(v)>>

(* JSON.stringify(user) for { name, email, sub }. *)
StringifyUser(v) ==
    <<LBRACE>> \o Member("name", v.fields.name) \o Member("email", v.fields.email)
               \o Member("sub", v.fields.sub) \o <<RBRACE>>

(* localStorage.getItem: null when the key is absent. *)
Absent == [present |-> FALSE, text |-> <<>>]
Text(t) == [present |-> TRUE, text |-> t]

(***************************************************************************)
(* Static data.                                                            *)
(***************************************************************************)
recipes ==
    << [name |-> "Spaghetti Marinara",
        ingredients |-> <<"spaghetti", "tomato sauce", "garlic", "olive oil">>],
       [name |-> "Peanut Butter Sandwich",
        ingredients |-> <<"bread", "peanut butter", "jelly">>],
       [name |-> "Omelette",
        ingredients |-> <<"eggs", "milk", "cheese", "salt">>],
       [name |-> "Guacamole",
        ingredients |-> <<"avocado", "lime", "salt", "tomato", "onion">>],
       [name |-> "Caprese Salad",
        ingredients |-> <<"tomato", "mozzarella", "basil", "olive oil", "salt">>],
       [name |-> "Fruit Smoothie",
        ingredients |-> <<"banana", "milk", "frozen berries", "honey">>],
       [name |-> "Chicken Stir-Fry",
        ingredients |-> <<"chicken breast", "soy sauce", "vegetables", "garlic", "rice">>] >>

(***************************************************************************)
(* String functions, on the strings the model uses.                        *)
(***************************************************************************)
(* String.prototype.toLowerCase *)
ToLowerCase(s) ==
    CASE s = "Bread" -> "bread"
      [] s = "BREAD" -> "bread"
      [] s = "Jelly" -> "jelly"
      [] s = "Peanut Butter" -> "peanut butter"
      [] s = "Milk" -> "milk"
      [] OTHER -> s

(* String.prototype.trim *)
Trim(s) ==
    CASE s = " " -> ""
      [] s = " bread " -> "bread"
      [] OTHER -> s

(* parseInt(s, 10) || 0 on the values a number input can hold. *)
ParseIntOr0(s) ==
    CASE s = "1" -> 1
      [] s = "2" -> 2
      [] s = "3" -> 3
      [] OTHER -> 0

(***************************************************************************)
(* Dates.  Time is counted in ms from 2024-05-01T00:00Z.                   *)
(***************************************************************************)
msPerDay == 86400000
msPerHour == msPerDay \div 24

IsoDates ==
    << "2024-05-01", "2024-05-02", "2024-05-03", "2024-05-04", "2024-05-05",
       "2024-05-06", "2024-05-07", "2024-05-08", "2024-05-09", "2024-05-10",
       "2024-05-11", "2024-05-12", "2024-05-13", "2024-05-14", "2024-05-15",
       "2024-05-16", "2024-05-17", "2024-05-18", "2024-05-19", "2024-05-20" >>

(* The day number (0 = 2024-05-01) an ISO date string names. *)
DayOfIso(s) == (CHOOSE i \in 1..Len(IsoDates) : IsoDates[i] = s) - 1

(* new Date("YYYY-MM-DD"): a date-only string is midnight UTC of that day. *)
NewDate(s) == DayOfIso(s) * msPerDay

(* getFullYear/getMonth/getDate: the calendar day of instant t in local time. *)
LocalDay(t) == (t + tz) \div msPerDay

(* Date.UTC(y, m, d): midnight UTC of a calendar day. *)
DateUTC(day) == day * msPerDay

daysBetween(start, end) ==
    LET utcStart == DateUTC(LocalDay(start))
        utcEnd == DateUTC(LocalDay(end))
    IN  (utcEnd - utcStart) \div msPerDay

(* The entries { item, daysLeft } of the soon-to-expire list. *)
getSoonExpiringItems(items) ==
    LET dated == SelectSeq(items, LAMBDA item : item.expirationDate # Null)
        entries == [i \in 1..Len(dated) |->
                       [item |-> dated[i],
                        daysLeft |-> daysBetween(now, NewDate(dated[i].expirationDate))]]
    IN  SelectSeq(entries, LAMBDA entry : entry.daysLeft <= 5)

(* A restock filter that looks at the quantity alone. *)
getRestockItemsAnyItem(items) ==
    SelectSeq(items, LAMBDA item : item.quantity <= 0)

getRestockItems(items) ==
    SelectSeq(items, LAMBDA item : item.regular /\ item.quantity <= 0)

(***************************************************************************)
(* Price lookup.  Prices are in cents.                                     *)
(***************************************************************************)
Entry(store, price) == [store |-> store, price |-> price]

priceData ==
    [k \in {"bread", "milk", "eggs", "tomato sauce", "spaghetti", "cheese", "bananas"} |->
        CASE k = "bread" -> <<Entry("Walmart", 150), Entry("Target", 140), Entry("Publix", 160)>>
          [] k = "milk" -> <<Entry("Walmart", 200), Entry("Target", 220), Entry("Costco", 180)>>
          [] k = "eggs" -> <<Entry("Publix", 250), Entry("Walmart", 230), Entry("Target", 260)>>
          [] k = "tomato sauce" ->
                 <<Entry("Publix", 180), Entry("Walmart", 160), Entry("Target", 170)>>
          [] k = "spaghetti" ->
                 <<Entry("Publix", 120), Entry("Walmart", 110), Entry("Target", 130)>>
          [] k = "cheese" -> <<Entry("Publix", 290), Entry("Walmart", 270), Entry("Costco", 250)>>
          [] OTHER -> <<Entry("Publix", 50), Entry("Walmart", 45), Entry("Costco", 40)>>]

(* table[key] on an object literal: an own property, else what the key
   names on Object.prototype, else undefined.  Of the inherited names only
   the all-lowercase ones can be asked for, the key being lowercased. *)
GetProperty(table, key) ==
    IF key \in DOMAIN table THEN [kind |-> "array", list |-> table[key]]
    ELSE IF key = "constructor" THEN [kind |-> "function", list |-> <<>>]
    ELSE IF key = "__proto__" THEN [kind |-> "object", list |-> <<>>]
    ELSE [kind |-> "undefined", list |-> <<>>]

(* list.forEach: keeps the first entry unless a later one is strictly cheaper. *)
RECURSIVE CheapestFrom(_, _)
CheapestFrom(cheapest, rest) ==
    IF rest = <<>> THEN cheapest
    ELSE CheapestFrom(IF Head(rest).price < cheapest.price THEN Head(rest) ELSE cheapest,
                      Tail(rest))

NoSuggestion == [ok |-> TRUE, found |-> FALSE, entry |-> Entry("", 0)]
LookupThrows == [ok |-> FALSE, found |-> FALSE, entry |-> Entry("", 0)]

(* ok = FALSE is a thrown TypeError; found = FALSE is the null result. *)
getCheapestStoreFor(table, itemName) ==
    LET list == GetProperty(table, ToLowerCase(itemName))
    IN  IF list.kind = "undefined" THEN NoSuggestion
        ELSE IF list.kind = "array" /\ Len(list.list) = 0 THEN NoSuggestion
        ELSE IF list.kind = "array"
             THEN [ok |-> TRUE, found |-> TRUE,
                   entry |-> CheapestFrom(list.list[1], list.list)]
        ELSE LookupThrows

NoLookup == [prices |-> priceData, name |-> "", result |-> NoSuggestion]

(* One call getCheapestStoreFor(itemName) over the table in use. *)
Lookup(itemName) ==
    /\ lookup' = [lookup EXCEPT !.name = itemName,
                                !.result = getCheapestStoreFor(lookup.prices, itemName)]
    /\ Ran("lookup", 0)
    /\ UNCHANGED <<storedInventory, storedUser, inventory, user, crashed, barcodeReader,
                   decoding, readersMade, scanHidden, zxingLoaded, now, tz>>

(* Array.prototype.find with the name test: index of the first item whose
   name equals the ingredient case-insensitively, 0 when there is none. *)
FindByName(items, ing) ==
    LET hits == {i \in 1..Len(items) : ToLowerCase(items[i].name) = ToLowerCase(ing)}
    IN  IF hits = {} THEN 0 ELSE CHOOSE i \in hits : \A j \in hits : i <= j

MissingOf(items, recipe) ==
    SelectSeq(recipe.ingredients,
              LAMBDA ing : LET f == FindByName(items, ing)
                           IN  f = 0 \/ items[f].quantity <= 0)

getRecipeSuggestions(items) ==
    [r \in 1..Len(recipes) |-> [recipe |-> recipes[r], missing |-> MissingOf(items, recipes[r])]]

(* render(): `canCook`, the cook button of recipe r carries no `disabled`. *)
canCook(items, r) == Len(getRecipeSuggestions(items)[r].missing) = 0

(* Array.prototype.find with the id test. *)
FindById(items, id) ==
    LET hits == {i \in 1..Len(items) : items[i].id = id}
    IN  IF hits = {} THEN 0 ELSE CHOOSE i \in hits : \A j \in hits : i <= j

(***************************************************************************)
(* Start-up: the two loads and the initial render.                         *)
(***************************************************************************)
(* `if (stored) x = JSON.parse(stored)` inside try/catch, x preset to dflt. *)
LoadValue(stored, dflt) ==
    IF ~stored.present \/ stored.text = <<>> THEN dflt
    ELSE LET p == JSONparse(stored.text)
         IN  IF p.ok THEN p.val ELSE dflt

(* render() throws: inventory.map on a non-array, item.name.toLowerCase() in
   getRecipeSuggestions on an element without a name, or getCheapestStoreFor
   on an item of the two reminder lists. *)
RenderThrows(inv) ==
    \/ inv.type # "array"
    \/ \E i \in 1..Len(inv.elems) : "name" \notin DOMAIN inv.elems[i]
    \/ \E i \in 1..Len(inv.elems) :
          LET item == inv.elems[i]
          IN  /\ \/ item.regular /\ item.quantity <= 0
                 \/ /\ item.expirationDate # Null
                    /\ daysBetween(now, NewDate(item.expirationDate)) <= 5
              /\ ~getCheapestStoreFor(priceData, ToLowerCase(item.name)).ok

Items == inventory.elems

(* render() builds a new DOM and a new closure: `let barcodeReader = null`,
   #scan-container hidden again.  Readers of earlier closures live on. *)
Rerender ==
    /\ barcodeReader' = None
    /\ scanHidden' = TRUE
    /\ UNCHANGED <<decoding, readersMade>>

saveInventory(inv) == Text(StringifyInventory(inv))

(* The state the script leaves behind when it has run over localStorage
   holding si and su. *)
Boot(si, su) ==
    /\ storedInventory = si
    /\ storedUser = su
    /\ user = LoadValue(su, JNull)
    /\ inventory = LoadValue(si, JArray(<<>>))
    /\ crashed = RenderThrows(LoadValue(si, JArray(<<>>)))
    /\ barcodeReader = None
    /\ decoding = {}
    /\ readersMade = 0
    /\ scanHidden = TRUE
    /\ last = [op |-> "boot", arg |-> 0]

(* Reloading the page: the script runs again over what localStorage holds. *)
Restart ==
    /\ user' = LoadValue(storedUser, JNull)
    /\ inventory' = LoadValue(storedInventory, JArray(<<>>))
    /\ crashed' = RenderThrows(inventory')
    /\ barcodeReader' = None
    /\ decoding' = {}
    /\ readersMade' = 0
    /\ scanHidden' = TRUE
    /\ Ran("boot", 0)
    /\ UNCHANGED <<storedInventory, storedUser, zxingLoaded, now, tz, lookup>>

(***************************************************************************)
(* Inventory handlers.                                                     *)
(***************************************************************************)
NewItem(id, name, quantity, expirationDate, regular) ==
    [id |-> id, name |-> name, quantity |-> quantity,
     expirationDate |-> expirationDate, barcode |-> Null, regular |-> regular]

(* add-form submit.  id is the value generateId() returns. *)
Add(nameInput, quantityInput, expirationInput, regularInput, id) ==
    /\ ~crashed
    /\ LET name == Trim(nameInput)
           quantity == ParseIntOr0(quantityInput)
           expirationDate == IF expirationInput = "" THEN Null ELSE expirationInput
           regular == (regularInput = "on")
       IN  IF name = ""
           THEN Ran("add", 0) /\ UNCHANGED state
           ELSE /\ Len(Items) < MaxItems
                /\ Ran("add", Len(Items) + 1)
                /\ inventory' = JArray(Append(Items,
                                   NewItem(id, name, quantity, expirationDate, regular)))
                /\ storedInventory' = saveInventory(inventory')
                /\ Rerender
                /\ UNCHANGED <<storedUser, user, crashed, zxingLoaded, now, tz, lookup>>

(* The body of the use handler on the found item k. *)
UseItem(items, k) ==
    IF items[k].quantity > 0 THEN [items EXCEPT ![k].quantity = @ - 1] ELSE items

(* Click on the Use button of row i. *)
Use(i) ==
    /\ ~crashed
    /\ Ran("use", i)
    /\ i \in 1..Len(Items)
    /\ LET id == Items[i].id
           k == FindById(Items, id)
       IN  /\ k # 0
           /\ inventory' = JArray(UseItem(Items, k))
    /\ storedInventory' = saveInventory(inventory')
    /\ Rerender
    /\ UNCHANGED <<storedUser, user, crashed, zxingLoaded, now, tz, lookup>>

(* inventory.filter((itm) => itm.id !== id) *)
DeleteById(items, id) == SelectSeq(items, LAMBDA itm : itm.id # id)

(* A delete handler that filters the list and renders without saving. *)
DeleteWithoutSave(i) ==
    /\ ~crashed
    /\ Ran("delete", i)
    /\ i \in 1..Len(Items)
    /\ inventory' = JArray(DeleteById(Items, Items[i].id))
    /\ Rerender
    /\ UNCHANGED <<storedInventory, storedUser, user, crashed, zxingLoaded, now, tz, lookup>>

(* Click on the Delete button of row i. *)
Delete(i) ==
    /\ ~crashed
    /\ Ran("delete", i)
    /\ i \in 1..Len(Items)
    /\ inventory' = JArray(DeleteById(Items, Items[i].id))
    /\ storedInventory' = saveInventory(inventory')
    /\ Rerender
    /\ UNCHANGED <<storedUser, user, crashed, zxingLoaded, now, tz, lookup>>

(* A cook step that takes one from every item of the ingredient's name. *)
CookIngredientEvery(items, ing) ==
    [i \in 1..Len(items) |->
        IF ToLowerCase(items[i].name) = ToLowerCase(ing) /\ items[i].quantity > 0
        THEN [items[i] EXCEPT !.quantity = @ - 1]
        ELSE items[i]]

(* One step of recipe.ingredients.forEach in the cook handler. *)
CookIngredient(items, ing) ==
    LET f == FindByName(items, ing)
    IN  IF f # 0 /\ items[f].quantity > 0
        THEN [items EXCEPT ![f].quantity = @ - 1]
        ELSE items

RECURSIVE CookAll(_, _)
CookAll(items, ings) ==
    IF ings = <<>> THEN items
    ELSE CookAll(CookIngredient(items, Head(ings)), Tail(ings))

(* Click on the Cook button of recipe r; a disabled button has no handler. *)
Cook(r) ==
    /\ ~crashed
    /\ Ran("cook", r)
    /\ r \in 1..Len(recipes)
    /\ canCook(Items, r)
    /\ inventory' = JArray(CookAll(Items, recipes[r].ingredients))
    /\ storedInventory' = saveInventory(inventory')
    /\ Rerender
    /\ UNCHANGED <<storedUser, user, crashed, zxingLoaded, now, tz, lookup>>

(***************************************************************************)
(* Sign-in and sign-out.                                                   *)
(***************************************************************************)
(* atob on the payload segments the model uses; ok = FALSE is a thrown
   InvalidCharacterError.  The text is the decoded JSON text. *)
Atob(s) ==
    CASE s = "eyJuYW1lIjoiQW5uIiwiZW1haWwiOiJhbm5AZXhhbXBsZS5jb20iLCJzdWIiOiIxMDAxIn0="
           -> [ok |-> TRUE,
               text |-> <<LBRACE, TStr("name"), TStr("Ann"),
                          TStr("email"), TStr("ann@example.com"),
                          TStr("sub"), TStr("1001"), RBRACE>>]
      [] s = "eyJlbWFpbCI6ImJvYkBleGFtcGxlLmNvbSIsInN1YiI6IjEwMDIifQ=="
           -> [ok |-> TRUE,
               text |-> <<LBRACE, TStr("email"), TStr("bob@example.com"),
                          TStr("sub"), TStr("1002"), RBRACE>>]
      [] s = "bnVsbA==" -> [ok |-> TRUE, text |-> <<TNull>>]
      [] s = "NQ==" -> [ok |-> TRUE, text |-> <<TNum(5)>>]
      [] s = "e30=" -> [ok |-> TRUE, text |-> <<LBRACE, RBRACE>>]
      [] s = "bm90IGpzb24=" -> [ok |-> TRUE, text |-> <<TJunk>>]
      [] OTHER -> [ok |-> FALSE, text |-> <<>>]

(* payload.k: undefined when the value has no such property. *)
Prop(v, k) ==
    IF v.type = "object" /\ k \in DOMAIN v.fields THEN v.fields[k] ELSE Undefined

(* The try block of handleCredentialResponse on response.credential split
   at ".": ok = FALSE when a statement threw, and then nothing was assigned. *)
DecodeCredential(segments) ==
    LET seg == IF Len(segments) >= 2 THEN segments[2] ELSE "undefined"
        bin == Atob(seg)
        parsed == IF bin.ok THEN JSONparse(bin.text) ELSE [ok |-> FALSE, val |-> JNull]
    IN  IF ~bin.ok \/ ~parsed.ok \/ parsed.val.type = "null"
        THEN [ok |-> FALSE, user |-> JNull]
        ELSE [ok |-> TRUE,
              user |-> JObject([name |-> Prop(parsed.val, "name"),
                                email |-> Prop(parsed.val, "email"),
                                sub |-> Prop(parsed.val, "sub")])]

(* The sign-in callback; the button that triggers it is rendered when !user. *)
handleCredentialResponse(segments) ==
    /\ ~crashed
    /\ ~Truthy(user)
    /\ LET d == DecodeCredential(segments)
       IN  IF d.ok
           THEN /\ user' = d.user
                /\ storedUser' = Text(StringifyUser(d.user))
                /\ Ran("signin", 1)
           ELSE Ran("signin", 0) /\ UNCHANGED <<user, storedUser>>
    /\ Rerender
    /\ UNCHANGED <<storedInventory, inventory, crashed, zxingLoaded, now, tz, lookup>>

(* Click on #signout, which exists when user is truthy. *)
SignOut ==
    /\ ~crashed
    /\ Ran("signout", 0)
    /\ Truthy(user)
    /\ user' = JNull
    /\ storedUser' = Absent
    /\ Rerender
    /\ UNCHANGED <<storedInventory, inventory, crashed, zxingLoaded, now, tz, lookup>>

(***************************************************************************)
(* Barcode scanning.                                                       *)
(***************************************************************************)
(* Click on #scan-button. *)
ScanClick ==
    /\ ~crashed
    /\ Ran("scan", 0)
    /\ scanHidden' = FALSE
    /\ IF barcodeReader = None /\ ~zxingLoaded
       THEN UNCHANGED <<barcodeReader, readersMade, decoding>>
       ELSE IF barcodeReader = None
       THEN /\ readersMade < MaxReaders
            /\ readersMade' = readersMade + 1
            /\ barcodeReader' = readersMade + 1
            /\ decoding' = decoding \cup {readersMade + 1}
       ELSE /\ decoding' = decoding \cup {barcodeReader}
            /\ UNCHANGED <<barcodeReader, readersMade>>
    /\ UNCHANGED <<storedInventory, storedUser, inventory, user, crashed,
                   zxingLoaded, now, tz, lookup>>

(* The pending decode of reader rd resolves: the rest of the try block runs
   in the closure that started it. *)
DecodeResolve(rd) ==
    /\ rd \in decoding
    /\ Ran("resolve", rd)
    /\ decoding' = decoding \ {rd}
    /\ scanHidden' = IF rd = barcodeReader THEN TRUE ELSE scanHidden
    /\ UNCHANGED <<storedInventory, storedUser, inventory, user, crashed,
                   barcodeReader, readersMade, zxingLoaded, now, tz, lookup>>

(* The pending decode of reader rd rejects: the catch block runs. *)
DecodeReject(rd) ==
    /\ rd \in decoding
    /\ Ran("reject", rd)
    /\ decoding' = decoding \ {rd}
    /\ UNCHANGED <<storedInventory, storedUser, inventory, user, crashed,
                   barcodeReader, readersMade, scanHidden, zxingLoaded, now, tz, lookup>>

(* Click on #stop-scan, visible while #scan-container is. *)
StopClick ==
    /\ ~crashed
    /\ Ran("stop", 0)
    /\ ~scanHidden
    /\ decoding' = IF barcodeReader # None THEN decoding \ {barcodeReader} ELSE decoding
    /\ scanHidden' = TRUE
    /\ UNCHANGED <<storedInventory, storedUser, inventory, user, crashed,
                   barcodeReader, readersMade, zxingLoaded, now, tz, lookup>>

(* Time passes; nothing is rendered. *)
Tick ==
    /\ now + 12 * msPerHour <= MaxDay * msPerDay
    /\ now' = now + 12 * msPerHour
    /\ Ran("tick", 0)
    /\ UNCHANGED <<storedInventory, storedUser, inventory, user, crashed,
                   barcodeReader, decoding, readersMade, scanHidden, zxingLoaded, tz,
                   lookup>>

(***************************************************************************)
(* Inputs.                                                                 *)
(***************************************************************************)
(* Values generateId() can return: Date.now() in base 36 followed by six
   random base-36 digits; neither part excludes a value returned before. *)
generateId == {"lvnq2o00k3f9a1", "lvnq2o00z81mcq"}

(* A list a previous session saved. *)
SavedPantry ==
    << NewItem("lvnq2n5ra0b1c2", "Bread", 2, Null, FALSE),
       NewItem("lvnq2n6sd3e4f5", "peanut butter", 1, Null, FALSE),
       NewItem("lvnq2n7tg6h7i8", "jelly", 1, Null, TRUE) >>

(* What localStorage["inventory"] may hold when the page loads. *)
StoredInventories ==
    { Absent,
      Text(<<TJunk>>),
      Text(<<TNull>>),
      Text(<<TNum(5)>>),
      Text(<<LBRACE, RBRACE>>),
      Text(<<LBRACK, LBRACE, RBRACE, RBRACK>>),
      Text(<<LBRACK, RBRACK>>),
      saveInventory(JArray(SavedPantry)) }

Init ==
    /\ \E si \in StoredInventories : Boot(si, Absent)
    /\ zxingLoaded = TRUE
    /\ now = 2 * msPerDay + 10 * msPerHour
    /\ tz = 0
    /\ lookup = NoLookup

Next ==
    \/ \E nameInput \in {"bread", " "}, quantityInput \in {"", "1"}, id \in generateId :
           Add(nameInput, quantityInput, "", Null, id)
    \/ \E i \in 1..MaxItems : Use(i)
    \/ \E i \in 1..MaxItems : Delete(i)
    \/ \E r \in 1..Len(recipes) : Cook(r)
    \/ Restart

Spec == Init /\ [][Next]_vars

(***************************************************************************)
(* Scanning, with the handlers that re-render while a decode is pending.   *)
(***************************************************************************)
AnnCredential ==
    <<"eyJhbGciOiJSUzI1NiJ9",
      "eyJuYW1lIjoiQW5uIiwiZW1haWwiOiJhbm5AZXhhbXBsZS5jb20iLCJzdWIiOiIxMDAxIn0=",
      "c2ln">>

InitScan ==
    /\ Boot(Absent, Absent)
    /\ zxingLoaded \in BOOLEAN
    /\ now = 2 * msPerDay + 10 * msPerHour
    /\ tz = 0
    /\ lookup = NoLookup

NextScan ==
    \/ ScanClick
    \/ \E rd \in 1..MaxReaders : DecodeResolve(rd)
    \/ \E rd \in 1..MaxReaders : DecodeReject(rd)
    \/ StopClick
    \/ \E id \in generateId : Add("bread", "1", "", Null, id)
    \/ \E i \in 1..MaxItems : Use(i)
    \/ \E i \in 1..MaxItems : Delete(i)
    \/ handleCredentialResponse(AnnCredential)
    \/ SignOut
    \/ Restart

SpecScan == InitScan /\ [][NextScan]_vars

(***************************************************************************)
(* Sign-in and sign-out over what localStorage["googleUser"] may hold.     *)
(***************************************************************************)
(* response.credential split at ".", for the tokens the callback is given. *)
MalformedCredentials ==
    { <<"eyJhbGciOiJSUzI1NiJ9">>,                      \* no payload segment
      <<"eyJhbGciOiJSUzI1NiJ9", "%%%", "c2ln">>,        \* not base64
      <<"eyJhbGciOiJSUzI1NiJ9", "bm90IGpzb24=", "c2ln">>,  \* not JSON
      <<"eyJhbGciOiJSUzI1NiJ9", "bnVsbA==", "c2ln">>,   \* JSON null
      <<"eyJhbGciOiJSUzI1NiJ9", "NQ==", "c2ln">> }      \* JSON number

Credentials ==
    MalformedCredentials \cup
    { AnnCredential,
      <<"eyJhbGciOiJSUzI1NiJ9",
        "eyJlbWFpbCI6ImJvYkBleGFtcGxlLmNvbSIsInN1YiI6IjEwMDIifQ==", "c2ln">>,
      <<"eyJhbGciOiJSUzI1NiJ9", "e30=", "c2ln">> }

(* What localStorage["googleUser"] may hold when the page loads. *)
StoredUsers ==
    { Absent,
      Text(<<TJunk>>),
      Text(<<TNull>>),
      Text(<<TNum(5)>>),
      Text(<<LBRACE, RBRACE>>),
      Text(<<LBRACE, TStr("name"), TStr("Ann"), TStr("email"), TStr("ann@example.com"),
             TStr("sub"), TStr("1001"), RBRACE>>) }

InitAuth ==
    /\ \E su \in StoredUsers : Boot(Absent, su)
    /\ zxingLoaded = TRUE
    /\ now = 2 * msPerDay + 10 * msPerHour
    /\ tz = 0
    /\ lookup = NoLookup

NextAuth ==
    \/ \E segments \in Credentials : handleCredentialResponse(segments)
    \/ SignOut
    \/ \E id \in generateId : Add("bread", "1", "", Null, id)
    \/ \E i \in 1..MaxItems : Use(i)
    \/ \E i \in 1..MaxItems : Delete(i)
    \/ Restart

SpecAuth == InitAuth /\ [][NextAuth]_vars

(***************************************************************************)
(* Expiry reminders as time passes, in browsers of three time zones.       *)
(***************************************************************************)
TimeZones == {0 - 5 * msPerHour, 0, 9 * msPerHour}

InitExpiry ==
    /\ Boot(Absent, Absent)
    /\ zxingLoaded = TRUE
    /\ now = 2 * msPerDay + 10 * msPerHour
    /\ tz \in TimeZones
    /\ lookup = NoLookup

NextExpiry ==
    \/ \E expirationInput \in {"", "2024-05-04", "2024-05-08", "2024-05-09"},
          id \in generateId :
           Add("Milk", "1", expirationInput, "on", id)
    \/ \E i \in 1..MaxItems : Delete(i)
    \/ Tick

SpecExpiry == InitExpiry /\ [][NextExpiry]_vars

(***************************************************************************)
(* The price lookup alone, over price tables of up to MaxEntries entries.  *)
(***************************************************************************)
MaxEntries == 3

PriceEntries == {Entry(store, price) : store \in {"A", "B", "C"}, price \in {100, 140, 150, 160}}

PriceLists == UNION {[1..n -> PriceEntries] : n \in 0..MaxEntries}

PriceTables == {priceData} \cup {[k \in {"bread"} |-> list] : list \in PriceLists}

LookupNames == {"bread", "Bread", "BREAD", "Milk", "jelly", "constructor", "__proto__"}

InitPrices ==
    /\ Boot(Absent, Absent)
    /\ zxingLoaded = TRUE
    /\ now = 2 * msPerDay + 10 * msPerHour
    /\ tz = 0
    /\ \E table \in PriceTables :
           lookup = [prices |-> table, name |-> "", result |-> NoSuggestion]

NextPrices == \E itemName \in LookupNames : Lookup(itemName)

SpecPrices == InitPrices /\ [][NextPrices]_vars

(***************************************************************************)
(* The inventory handlers over items with and without the regular flag.    *)
(***************************************************************************)
InitRestock ==
    /\ \E si \in {Absent, saveInventory(JArray(SavedPantry))} : Boot(si, Absent)
    /\ zxingLoaded = TRUE
    /\ now = 2 * msPerDay + 10 * msPerHour
    /\ tz = 0
    /\ lookup = NoLookup

NextRestock ==
    \/ \E regularInput \in {Null, "on"}, id \in generateId :
           Add("bread", "1", "", regularInput, id)
    \/ \E i \in 1..MaxItems : Use(i)
    \/ \E i \in 1..MaxItems : Delete(i)
    \/ \E r \in 1..Len(recipes) : Cook(r)

SpecRestock == InitRestock /\ [][NextRestock]_vars

(***************************************************************************)
(* Properties.                                                             *)
(***************************************************************************)
LowerNames(r) == {ToLowerCase(recipes[r].ingredients[k]) : k \in 1..Len(recipes[r].ingredients)}

(* Item i carries the name of an ingredient of recipe r. *)
MatchesRecipe(items, i, r) == ToLowerCase(items[i].name) \in LowerNames(r)

(* Item i is the first item of the list with its name. *)
FirstOfName(items, i) ==
    \A j \in 1..(i - 1) : ToLowerCase(items[j].name) # ToLowerCase(items[i].name)

(* C1, as amended: a Cook click on a recipe whose button is enabled takes
   exactly 1 from the first item, in list order, matching each ingredient;
   no quantity goes below 0; every other item, later items of the same name
   included, keeps its quantity. *)
C1_CookTakesOneFromFirstMatch ==
    [][\A r \in 1..Len(recipes) :
          Cook(r) =>
            /\ Len(Items') = Len(Items)
            /\ \A i \in 1..Len(Items) :
                 /\ Items'[i].quantity >= 0
                 /\ Items'[i].quantity =
                       IF MatchesRecipe(Items, i, r) /\ FirstOfName(Items, i)
                       THEN Items[i].quantity - 1
                       ELSE Items[i].quantity]_vars

(* C1, as stated: a Cook click takes exactly 1 from every item whose name
   matches an ingredient of the recipe, never going below 0, and leaves the
   items that match no ingredient alone. *)
C1_CookTakesOneFromEveryMatch ==
    [][\A r \in 1..Len(recipes) :
          Cook(r) =>
            /\ Len(Items') = Len(Items)
            /\ \A i \in 1..Len(Items) :
                 /\ Items'[i].quantity >= 0
                 /\ Items'[i].quantity =
                       IF MatchesRecipe(Items, i, r)
                       THEN Items[i].quantity - 1
                       ELSE Items[i].quantity]_vars

(* A Cook click has just run on a list in which an ingredient of the recipe
   is carried by two items, the later of which still has stock. *)
C1_CookedWithDuplicateNames ==
    /\ last.op = "cook"
    /\ \E i, j \in 1..Len(Items) :
         /\ i < j
         /\ ToLowerCase(Items[i].name) = ToLowerCase(Items[j].name)
         /\ MatchesRecipe(Items, j, last.arg)
         /\ Items[j].quantity > 0

(* Every ingredient of recipe r is matched by some item with quantity >= 1. *)
AllIngredientsInStock(items, r) ==
    \A k \in 1..Len(recipes[r].ingredients) :
        \E i \in 1..Len(items) :
            /\ ToLowerCase(items[i].name) = ToLowerCase(recipes[r].ingredients[k])
            /\ items[i].quantity >= 1

(* C2: in every state, a recipe whose every ingredient is matched by an item
   with quantity >= 1 reports no missing ingredient and its Cook button is
   enabled. *)
C2_InStockMeansCookable ==
    ~crashed =>
        \A r \in 1..Len(recipes) :
            AllIngredientsInStock(Items, r) =>
                /\ getRecipeSuggestions(Items)[r].missing = <<>>
                /\ canCook(Items, r)

(* The list without its element i. *)
RemoveAt(items, i) == SubSeq(items, 1, i - 1) \o SubSeq(items, i + 1, Len(items))

(* C3: a Delete click on a row removes exactly that one item and leaves the
   others as they were, in the same order. *)
C3_DeleteRemovesExactlyOne ==
    [][\A i \in 1..Len(Items) : Delete(i) => Items' = RemoveAt(Items, i)]_vars

(* C4: no two items of the list carry the same identifier. *)
C4_IdsUnique ==
    ~crashed =>
        \A i, j \in 1..Len(Items) : i # j => Items[i].id # Items[j].id

(* C5: what localStorage holds reloads to the list in memory, and after a
   handler that changed the list it is the serialisation of that list. *)
C5_PersistedEqualsMemory ==
    ~crashed =>
        /\ LoadValue(storedInventory, JArray(<<>>)) = inventory
        /\ (last.op \in {"use", "delete", "cook"} \/ (last.op = "add" /\ last.arg # 0))
               => storedInventory = Text(StringifyInventory(inventory))

(* The page was reloaded over a list that add and use/cook had changed. *)
C5_RestartedAfterChanges ==
    /\ last.op = "boot"
    /\ ~crashed
    /\ Len(Items) >= 2
    /\ \E i \in 1..Len(Items) : Items[i].id \in generateId
    /\ \E i \in 1..Len(Items) : Items[i].quantity = 0 /\ Items[i].id \notin generateId

(* The text is the serialisation of a list of items. *)
WellFormedInventory(stored) ==
    /\ stored.present
    /\ LET p == JSONparse(stored.text)
       IN  /\ p.ok
           /\ p.val.type = "array"
           /\ \A i \in 1..Len(p.val.elems) :
                 DOMAIN p.val.elems[i] =
                     {"id", "name", "quantity", "expirationDate", "barcode", "regular"}

(* C6: start-up over a persisted inventory value that is not a well-formed
   list of items leaves the empty inventory and a completed render. *)
C6_MalformedInventoryFallsBack ==
    (last.op = "boot" /\ storedInventory.present /\ ~WellFormedInventory(storedInventory))
        => (inventory = JArray(<<>>) /\ ~crashed)

(* C8: a Use click on a row takes exactly 1 from that row's item when it has
   stock, leaves it at 0 otherwise, and changes nothing else. *)
C8_UseDecrementsThatItem ==
    [][\A i \in 1..Len(Items) :
          Use(i) =>
            Items' = [Items EXCEPT ![i].quantity = IF @ > 0 THEN @ - 1 ELSE @]]_vars

(* C7: a Stop click ends every decode that a Scan click started and that is
   still pending, whether or not the page was re-rendered in between. *)
C7_StopEndsPendingDecode ==
    [][StopClick => decoding' = {}]_vars

(* C9: a sign-in callback given a malformed token (no payload segment, not
   base64, not JSON, or JSON that is no object) changes neither the user in
   memory nor the persisted user nor the inventory, and the page lives on. *)
C9_MalformedTokenChangesNothing ==
    [][\A segments \in MalformedCredentials :
          handleCredentialResponse(segments) =>
            /\ user' = user
            /\ storedUser' = storedUser
            /\ inventory' = inventory
            /\ ~crashed']_vars

(* Whole calendar days from today's date, where the browser is, to the date
   the item carries. *)
CalendarDaysLeft(item) == DayOfIso(item.expirationDate) - LocalDay(now)

(* C10: the soon-to-expire list is, in inventory order, the items with a date
   at most 5 calendar days from now, each with that number of days. *)
C10_SoonExpiringWithinFiveDays ==
    ~crashed =>
        getSoonExpiringItems(Items) =
            LET due == SelectSeq(Items, LAMBDA item :
                           item.expirationDate # Null /\ CalendarDaysLeft(item) <= 5)
            IN  [i \in 1..Len(due) |->
                    [item |-> due[i], daysLeft |-> CalendarDaysLeft(due[i])]]

(* The least position of the list that holds its lowest price. *)
FirstMinimum(list) ==
    CHOOSE k \in 1..Len(list) :
        /\ \A j \in 1..Len(list) : list[k].price <= list[j].price
        /\ \A j \in 1..(k - 1) : list[j].price > list[k].price

(* C11: a lookup gives no suggestion when the lowercased name has no entry
   in the price table or an empty list, and otherwise the entry of lowest
   price, the first in list order among those that tie. *)
C11_CheapestIsFirstMinimum ==
    last.op = "lookup" =>
        LET key == ToLowerCase(lookup.name)
        IN  /\ lookup.result.ok
            /\ IF key \notin DOMAIN lookup.prices \/ lookup.prices[key] = <<>>
               THEN ~lookup.result.found
               ELSE /\ lookup.result.found
                    /\ lookup.result.entry =
                          lookup.prices[key][FirstMinimum(lookup.prices[key])]

(* The positions of the items that are regular and out of stock. *)
NeedsRestock(items) == {i \in 1..Len(items) : items[i].regular /\ items[i].quantity <= 0}

(* The k-th smallest member of a set of positions. *)
NthOf(S, k) == CHOOSE i \in S : Cardinality({j \in S : j <= i}) = k

(* C12: the restock list is, in inventory order, exactly the items whose
   regular flag is set and whose quantity is <= 0. *)
C12_RestockIsRegularAndEmpty ==
    ~crashed =>
        LET restock == getRestockItems(Items)
            S == NeedsRestock(Items)
        IN  /\ Len(restock) = Cardinality(S)
            /\ \A k \in 1..Len(restock) : restock[k] = Items[NthOf(S, k)]

(* A use or cook click has just brought a regular item to 0: it is listed,
   while a regular item in stock and an empty item that is not regular are
   in the inventory too. *)
C12_RegularItemJustEmptied ==
    /\ last.op \in {"use", "cook"}
    /\ \E i \in 1..Len(Items) :
          /\ Items[i].regular /\ Items[i].quantity = 0
          /\ \E k \in 1..Len(getRestockItems(Items)) : getRestockItems(Items)[k] = Items[i]
    /\ \E i \in 1..Len(Items) : Items[i].regular /\ Items[i].quantity >= 1
    /\ \E i \in 1..Len(Items) : ~Items[i].regular /\ Items[i].quantity = 0

====
